---------------------------- MODULE Spec2Model ----------------------------
(***************************************************************************)
(* The crash-game dashboard of src/app/page.tsx: the Home component's      *)
(* state (crashHistory, inputMultiplier, statistics, isSimulating), its    *)
(* event handlers, the pending 500 ms timer and the statistics effect.     *)
(*                                                                         *)
(* Numbers are held in thousandths (mills): 1.0 is 1000, 100 is 100000.    *)
(* Strings are sequences of one-character strings.  Time is Date.now() in  *)
(* milliseconds.                                                           *)
(***************************************************************************)
EXTENDS Integers, Sequences, FiniteSets, TLC

VARIABLES
    crashHistory,     \* useState<CrashPoint[]>([])            (line 24)
    inputMultiplier,  \* useState('')                          (line 25)
    statistics,       \* useState<Statistics | null>(null)     (line 26)
    isSimulating,     \* useState(false)                       (line 27)
    now,              \* the value Date.now() returns
    timers,           \* deadlines of the pending setTimeout callbacks (line 74)
    effectPending,    \* the useEffect of line 104 is scheduled and has not run
    inserted,         \* history variable: all outcomes inserted since the last clear
    nManual           \* history variable: accepted manual entries so far

vars == <<crashHistory, inputMultiplier, statistics, isSimulating, now, timers,
          effectPending, inserted, nManual>>

----------------------------------------------------------------------------
(* Bounds of the exploration and program constants.                        *)

MaxNow == 500          \* the clock is explored up to this many ms
MaxJitter == 1         \* 1 ms ticks explored after each multiple of the delay
MaxManual == 1         \* accepted manual entries per behaviour
MaxLen == 3            \* longest outcome list of the statistics specification

HistoryCap == 100      \* .slice(0, 100)
SimulatingDelay == 500 \* setTimeout(..., 500)
RoundSpacing == 1000   \* Date.now() + i * 1000

----------------------------------------------------------------------------
(* Strings and numbers.                                                    *)

Digits == <<"0", "1", "2", "3", "4", "5", "6", "7", "8", "9">>

IsDigit(c) == \E d \in 1..10 : Digits[d] = c

DigitVal(c) == (CHOOSE d \in 1..10 : Digits[d] = c) - 1

NaN == [nan |-> TRUE, mills |-> 0]

Number(m) == [nan |-> FALSE, mills |-> m]

\* F(x) and F(x, y) with each argument evaluated once, before F is applied.
Strict(F(_), x) == CHOOSE r \in {F(v) : v \in {x}} : TRUE

Strict2(F(_, _), x, y) == CHOOSE r \in {F(v, w) : v \in {x}, w \in {y}} : TRUE

\* The number of digits s holds from position i on, up to the first
\* character that is no digit.
DigitRun(s, i) ==
    CHOOSE n \in 0..Len(s) :
        /\ \A k \in i..(i + n - 1) : k <= Len(s) /\ IsDigit(s[k])
        /\ i + n > Len(s) \/ ~IsDigit(s[i + n])

\* The value of the digits s[i .. i+n-1] read as a decimal integer.
RECURSIVE DigitsValue(_, _, _)
DigitsValue(s, i, n) ==
    IF n = 0 THEN 0
    ELSE Strict(LAMBDA m : DigitsValue(s, i, m) * 10 + DigitVal(s[i + m]), n - 1)

\* The first three fraction digits s[i .. i+n-1] as thousandths.
FractionMills(s, i, n) ==
    LET d(k) == IF k <= n THEN DigitVal(s[i + k - 1]) ELSE 0
    IN  d(1) * 100 + d(2) * 10 + d(3)

\* parseFloat of the text t, given where its digits start (p0), the number
\* of its integer digits (nInt) and of its fraction digits (nFrac).
ParsedNumber(t, p0, nInt, nFrac) ==
    IF nInt + nFrac = 0 THEN NaN
    ELSE Strict(LAMBDA mag : Number(IF t[1] = "-" THEN 0 - mag ELSE mag),
                DigitsValue(t, p0, nInt) * 1000 + FractionMills(t, p0 + nInt + 1, nFrac))

\* parseFloat: an optional sign, digits, an optional point and digits; the
\* longest such prefix is the number, and NaN when it holds no digit.
parseFloat(s) ==
    Strict(LAMBDA t :
             Strict(LAMBDA p0 :
                      Strict(LAMBDA nInt :
                               ParsedNumber(t, p0, nInt,
                                            IF p0 + nInt <= Len(t) /\ t[p0 + nInt] = "."
                                            THEN DigitRun(t, p0 + nInt + 1) ELSE 0),
                             DigitRun(t, p0)),
                    IF Len(t) >= 1 /\ t[1] \in {"-", "+"} THEN 2 ELSE 1),
           s)

\* The decimal digits of the natural number n.
RECURSIVE NatToString(_)
NatToString(n) ==
    IF n < 10 THEN <<Digits[n + 1]>>
    ELSE Strict(LAMBDA q : NatToString(q) \o <<Digits[(n % 10) + 1]>>, n \div 10)

\* num/den mills rounded to the nearest hundredth, in hundredths.  A value
\* exactly halfway goes up, as toFixed rounds the exact value of a double;
\* where the double nearest to num/den lies below the halfway point the
\* program rounds down, and the properties stated here hold either way.
RoundCents(num, den) == (2 * num + 10 * den) \div (20 * den)

\* The text of c hundredths with two fraction digits.
FormatCents(c) ==
    NatToString(c \div 100) \o <<".", Digits[((c \div 10) % 10) + 1], Digits[(c % 10) + 1]>>

\* (num/den).toFixed(2), for num/den >= 0.
toFixed2(num, den) == Strict(FormatCents, RoundCents(num, den))

----------------------------------------------------------------------------
(* The outcome generator.                                                  *)

\* Math.random(): draw k of random stream seed, in thousandths of [0, 1).
Random(seed, k) == (seed * 617 + k * 389) % 1000

\* generateCrashMultiplier with its two Math.random() results r (the branch
\* selector) and u (the scale), all in thousandths.
generateCrashMultiplier(r, u) ==
    IF r < 500 THEN 1000 + u
    ELSE IF r < 800 THEN 2000 + u * 3
    ELSE IF r < 950 THEN 5000 + u * 5
    ELSE 10000 + u * 40

----------------------------------------------------------------------------
(* Array helpers.                                                          *)

Min2(a, b) == Strict2(LAMBDA x, y : IF x < y THEN x ELSE y, a, b)

Max2(a, b) == Strict2(LAMBDA x, y : IF x > y THEN x ELSE y, a, b)

\* Array.prototype.slice(from, to) with 0 <= from.
slice(s, from, to) ==
    LET hi == Min2(to, Len(s))
    IN  IF hi <= from THEN <<>> ELSE [k \in 1..(hi - from) |-> s[from + k]]

\* Array.prototype.map(c => c.multiplier)
Multipliers(history) == [k \in 1..Len(history) |-> history[k].multiplier]

\* Array.prototype.filter(pred).length
CountIf(ms, pred(_)) == Len(SelectSeq(ms, pred))

\* op folded over at(lo), ..., at(hi), for lo <= hi and an associative op.
\* The range is split in two halves, so that a fold over 100 elements nests
\* 7 deep.
RECURSIVE Fold(_, _, _, _)
Fold(at(_), op(_, _), lo, hi) ==
    IF lo = hi THEN at(lo)
    ELSE Strict(LAMBDA mid : Strict2(op, Fold(at, op, lo, mid), Fold(at, op, mid + 1, hi)),
                (lo + hi) \div 2)

\* reduce((a, b) => a + b, 0) over the first n elements.
SumTo(ms, n) ==
    IF n = 0 THEN 0 ELSE Fold(LAMBDA k : ms[k], LAMBDA a, b : a + b, 1, n)

\* Math.max(...ms) and Math.min(...ms) over the first n >= 1 elements.
MaxTo(ms, n) == Fold(LAMBDA k : ms[k], Max2, 1, n)

MinTo(ms, n) == Fold(LAMBDA k : ms[k], Min2, 1, n)

----------------------------------------------------------------------------
(* Exact arithmetic above 2^31: a natural number hi * 10^6 + lo.  The sum  *)
(* of squared deviations of 100 multipliers exceeds a 32-bit integer; the   *)
(* program computes it in a double.                                        *)

BigBase == 1000 * 1000

\* The number hi * 10^6 + lo, for any lo >= 0.
BigOf(hi, lo) == [hi |-> hi + (lo \div BigBase), lo |-> lo % BigBase]

BigAdd(a, b) == BigOf(a.hi + b.hi, a.lo + b.lo)

\* a - b, for a >= b.
BigSub(a, b) == BigOf(a.hi - b.hi - 1, a.lo + BigBase - b.lo)

\* a * k, for a small natural number k.
BigTimes(a, k) == BigOf(a.hi * k, a.lo * k)

\* n * n, for a natural number n below 4 * 10^7.
BigSquare(n) ==
    LET n1 == n \div 1000
        n0 == n % 1000
        m  == 2 * n1 * n0
    IN  BigOf(n1 * n1 + (m \div 1000), (m % 1000) * 1000 + n0 * n0)

BigLeq(a, b) == a.hi < b.hi \/ (a.hi = b.hi /\ a.lo <= b.lo)

\* The sum of the squares of the first n >= 1 elements.
SumSquaresTo(ms, n) == Fold(LAMBDA k : BigSquare(ms[k]), BigAdd, 1, n)

----------------------------------------------------------------------------
(* The statistics engine.                                                  *)

null == [isNull |-> TRUE]

\* The mean is not subtracted: n^2 times the mean of the squares.
ScaledVarianceNoMean(ms) == BigTimes(SumSquaresTo(ms, Len(ms)), Len(ms))

\* n^2 times the variance of line 89: the sum over val of (val - avg)^2,
\* divided by n, equals (n * sum(val^2) - sum(val)^2) / n^2.
ScaledVariance(ms) ==
    Strict2(BigSub,
            Strict(LAMBDA squares : BigTimes(squares, Len(ms)), SumSquaresTo(ms, Len(ms))),
            Strict(BigSquare, SumTo(ms, Len(ms))))

\* The largest v in lo..hi with (2v - 1) * 10 * n <= 2 * sqrt(d), that is
\* with v - 1/2 <= sqrt(d) / (10 * n), where d4 is 4 * d; lo is such a v.
RECURSIVE RootSearch(_, _, _, _)
RootSearch(d4, n, lo, hi) ==
    IF lo >= hi THEN lo
    ELSE Strict(LAMBDA mid :
                  IF Strict2(BigLeq, BigSquare((2 * mid - 1) * 10 * n), d4)
                  THEN RootSearch(d4, n, mid, hi)
                  ELSE RootSearch(d4, n, lo, mid - 1),
                (lo + hi + 1) \div 2)

\* Math.sqrt(variance).toFixed(2), in hundredths: sqrt(d) / n mills rounded
\* to the nearest hundredth, where d is n^2 times the variance.  A value
\* exactly halfway goes up.  The deviation is at most the range of the
\* values.
VolatilityCents(ms) ==
    Strict2(LAMBDA d4, range : RootSearch(d4, Len(ms), 0, (range \div 10) + 1),
            Strict(LAMBDA d : BigTimes(d, 4), ScaledVariance(ms)),
            MaxTo(ms, Len(ms)) - MinTo(ms, Len(ms)))

\* The two middle elements are added and not halved.
MedianNotHalved(ms) ==
    Strict(LAMBDA sorted :
             IF Len(sorted) % 2 = 0
             THEN [num |-> sorted[Len(sorted) \div 2] + sorted[(Len(sorted) \div 2) + 1],
                   den |-> 1]
             ELSE [num |-> sorted[(Len(sorted) \div 2) + 1], den |-> 1],
           SortSeq(ms, LAMBDA a, b : a < b))

\* sorted[...]: the median of lines 84-87 as a fraction num/den of mills.
Median(ms) ==
    Strict(LAMBDA sorted :
             IF Len(sorted) % 2 = 0
             THEN [num |-> sorted[Len(sorted) \div 2] + sorted[(Len(sorted) \div 2) + 1],
                   den |-> 2]
             ELSE [num |-> sorted[(Len(sorted) \div 2) + 1], den |-> 1],
           SortSeq(ms, LAMBDA a, b : a < b))

\* The returned object of lines 92-101 for the multipliers of a non-empty
\* history.
Summary(multipliers) ==
    [isNull |-> FALSE,
     averageMultiplier |->
         parseFloat(Strict(LAMBDA sum : toFixed2(sum, Len(multipliers)),
                           SumTo(multipliers, Len(multipliers)))).mills,
     medianMultiplier |->
         parseFloat(Strict(LAMBDA median : toFixed2(median.num, median.den),
                           Median(multipliers))).mills,
     maxMultiplier |-> MaxTo(multipliers, Len(multipliers)),
     minMultiplier |-> MinTo(multipliers, Len(multipliers)),
     volatility |-> parseFloat(Strict(FormatCents, VolatilityCents(multipliers))).mills,
     crashesBelow2x |-> CountIf(multipliers, LAMBDA m : m < 2000),
     crashesAbove5x |-> CountIf(multipliers, LAMBDA m : m >= 5000),
     crashesAbove10x |-> CountIf(multipliers, LAMBDA m : m >= 10000)]

\* A slip of the length test: a single outcome is taken for no data.
IsEmptyOrSingle(history) == Len(history) <= 1

\* crashHistory.length === 0
IsEmpty(history) == Len(history) = 0

calculateStatistics(history) ==
    IF IsEmpty(history) THEN null
    ELSE Strict(Summary, Multipliers(history))

\* The second bucket starts above 1.5: c.multiplier > 1.5.
distributionDataOpenBucket(history) ==
    Strict(LAMBDA ms :
             <<CountIf(ms, LAMBDA m : m >= 1000 /\ m < 1500),
               CountIf(ms, LAMBDA m : m > 1500 /\ m < 2000),
               CountIf(ms, LAMBDA m : m >= 2000 /\ m < 3000),
               CountIf(ms, LAMBDA m : m >= 3000 /\ m < 5000),
               CountIf(ms, LAMBDA m : m >= 5000 /\ m < 10000),
               CountIf(ms, LAMBDA m : m >= 10000)>>,
           Multipliers(history))

\* distributionData: the six bucket counts of lines 113-120.
distributionData(history) ==
    Strict(LAMBDA ms :
             <<CountIf(ms, LAMBDA m : m >= 1000 /\ m < 1500),
               CountIf(ms, LAMBDA m : m >= 1500 /\ m < 2000),
               CountIf(ms, LAMBDA m : m >= 2000 /\ m < 3000),
               CountIf(ms, LAMBDA m : m >= 3000 /\ m < 5000),
               CountIf(ms, LAMBDA m : m >= 5000 /\ m < 10000),
               CountIf(ms, LAMBDA m : m >= 10000)>>,
           Multipliers(history))

----------------------------------------------------------------------------
(* The component.                                                          *)

\* What the user may have typed in the input of line 136: its type is
\* number, so that its value is empty or the text of a number.
Inputs ==
    { <<>>,
      <<"-", "5">>,
      <<"0", ".", "9", "9", "9">>,
      <<"1">>,
      <<"9", "9", ".", "9", "9", "9">>,
      <<"1", "0", "0", ".", "0", "0", "1">> }

\* The random streams a simulated batch may draw from.  The first ten
\* rounds of stream 1 take each of the four branches of the generator.
Seeds == {1}

\* The counts of the two simulate buttons.
SimulateCounts == {10, 50}

Init ==
    /\ crashHistory = <<>>
    /\ inputMultiplier = <<>>
    /\ statistics = null
    /\ isSimulating = FALSE
    /\ now = 0
    /\ timers = {}
    /\ effectPending = TRUE
    /\ inserted = <<>>
    /\ nManual = 0

\* The upper limit is not tested: multiplier >= 1.0.
InRangeNoUpperLimit(multiplier) ==
    /\ ~multiplier.nan
    /\ multiplier.mills >= 1000

\* multiplier >= 1.0 && multiplier <= 100; a comparison with NaN is false.
InRange(multiplier) ==
    /\ ~multiplier.nan
    /\ multiplier.mills >= 1000
    /\ multiplier.mills <= 100000

\* The multiplier is stored as parsed, without toFixed(2).
NewManualCrashUnrounded(multiplier, t) ==
    [id |-> t, multiplier |-> multiplier.mills, timestamp |-> t]

\* The CrashPoint of lines 53-57, made at time t.
NewManualCrash(multiplier, t) ==
    [id |-> t,
     multiplier |-> parseFloat(toFixed2(multiplier.mills, 1)).mills,
     timestamp |-> t]

\* prev => [newCrash, ...prev].slice(0, 100)
AddUpdater(newCrash, prev) == slice(<<newCrash>> \o prev, 0, HistoryCap)

\* The CrashPoint pushed by iteration i of the loop of lines 66-72, with
\* Date.now() returning t and the generator drawing r and u.
NewSimulatedCrash(i, t, r, u) ==
    [id |-> t + i,
     multiplier |-> parseFloat(toFixed2(generateCrashMultiplier(r, u), 1)).mills,
     timestamp |-> t + i * RoundSpacing]

\* The batch is prepended and the result is not cut.
SimulateUpdaterUncut(newCrashes, prev) == newCrashes \o prev

\* prev => [...newCrashes, ...prev].slice(0, 100)
SimulateUpdater(newCrashes, prev) == slice(newCrashes \o prev, 0, HistoryCap)

\* A 1 ms step of the clock is explored here.
CanTick == now + 1 <= MaxNow /\ (now % SimulatingDelay) < MaxJitter

\* Handlers run once the effect of the previous render has run: React
\* flushes the passive effects of a discrete event before the next event.
onChange(value) ==
    /\ ~effectPending
    /\ value # inputMultiplier
    /\ inputMultiplier' = value
    /\ UNCHANGED <<crashHistory, statistics, isSimulating, now, timers,
                   effectPending, inserted, nManual>>

addManualCrash ==
    /\ ~effectPending
    /\ LET multiplier == parseFloat(inputMultiplier)
       IN  IF InRange(multiplier)
           THEN LET newCrash == NewManualCrash(multiplier, now)
                IN  /\ nManual < MaxManual
                    /\ crashHistory' = AddUpdater(newCrash, crashHistory)
                    /\ inputMultiplier' = <<>>
                    /\ effectPending' = TRUE
                    /\ inserted' = <<newCrash>> \o inserted
                    /\ nManual' = nManual + 1
           ELSE UNCHANGED <<crashHistory, inputMultiplier, effectPending,
                            inserted, nManual>>
    /\ UNCHANGED <<statistics, isSimulating, now, timers>>

\* The buttons are disabled while isSimulating.  The loop is taken to run
\* within one millisecond: each Date.now() of the batch returns now.
simulateRounds(count, seed) ==
    /\ ~effectPending
    /\ ~isSimulating
    /\ LET newCrashes == [k \in 1..count |->
                            NewSimulatedCrash(k - 1, now,
                                              Random(seed, 2 * (k - 1)),
                                              Random(seed, 2 * (k - 1) + 1))]
       IN  /\ crashHistory' = SimulateUpdater(newCrashes, crashHistory)
           /\ inserted' = newCrashes \o inserted
    /\ timers' = timers \cup {now + SimulatingDelay}
    /\ isSimulating' = TRUE
    /\ effectPending' = TRUE
    /\ UNCHANGED <<inputMultiplier, statistics, now, nManual>>

\* onClick={() => setCrashHistory([])}
clearAll ==
    /\ ~effectPending
    /\ crashHistory' = <<>>
    /\ effectPending' = TRUE
    /\ inserted' = <<>>
    /\ UNCHANGED <<inputMultiplier, statistics, isSimulating, now, timers, nManual>>

\* setTimeout(() => setIsSimulating(false), 500)
timeout ==
    /\ ~effectPending
    /\ \E deadline \in timers :
          /\ now >= deadline
          /\ timers' = timers \ {deadline}
    /\ isSimulating' = FALSE
    /\ UNCHANGED <<crashHistory, inputMultiplier, statistics, now,
                   effectPending, inserted, nManual>>

\* The summary is computed when there is none and kept afterwards.
useEffectKeepsSummary ==
    /\ effectPending
    /\ statistics' = IF statistics.isNull THEN calculateStatistics(crashHistory)
                     ELSE statistics
    /\ effectPending' = FALSE
    /\ UNCHANGED <<crashHistory, inputMultiplier, isSimulating, now, timers,
                   inserted, nManual>>

\* useEffect(() => setStatistics(calculateStatistics()), [crashHistory])
useEffect ==
    /\ effectPending
    /\ statistics' = calculateStatistics(crashHistory)
    /\ effectPending' = FALSE
    /\ UNCHANGED <<crashHistory, inputMultiplier, isSimulating, now, timers,
                   inserted, nManual>>

\* Time passes: 1 ms, or the delay of the timer.
tick(ms) ==
    /\ ~effectPending
    /\ now + ms <= MaxNow
    /\ ms = 1 => CanTick
    /\ now' = now + ms
    /\ UNCHANGED <<crashHistory, inputMultiplier, statistics, isSimulating,
                   timers, effectPending, inserted, nManual>>

Next ==
    \/ \E value \in Inputs : onChange(value)
    \/ addManualCrash
    \/ \E count \in SimulateCounts, seed \in Seeds :
          simulateRounds(count, seed)
    \/ clearAll
    \/ timeout
    \/ useEffect
    \/ \E ms \in {1, SimulatingDelay} : tick(ms)

Spec == Init /\ [][Next]_vars

\* The effect of a render runs.
FairSpec == Spec /\ WF_vars(useEffect)

----------------------------------------------------------------------------
(* The statistics engine alone, over every history of at most MaxLen       *)
(* manual entries with these multipliers, entered 1 ms apart.              *)

StatValues == {1000, 1010, 1490, 1500, 2000, 2500, 3000, 5000, 9990, 10000, 100000}

InitStats ==
    \E n \in 0..MaxLen :
      \E ms \in [1..n -> StatValues] :
        /\ crashHistory = [k \in 1..n |-> [id |-> n - k, multiplier |-> ms[k], timestamp |-> n - k]]
        /\ inputMultiplier = <<>>
        /\ statistics = calculateStatistics(slice(crashHistory, 1, n))
        /\ isSimulating = FALSE
        /\ now = n
        /\ timers = {}
        /\ effectPending = TRUE
        /\ inserted = crashHistory
        /\ nManual = n

StatsSpec == InitStats /\ [][useEffect]_vars

----------------------------------------------------------------------------
(* Properties.                                                             *)

AllIdentical(ms) == \A i, j \in 1..Len(ms) : ms[i] = ms[j]

\* The input is not a number, or a number outside [1.00, 100.00].
InvalidInput(text) ==
    LET m == parseFloat(text)
    IN  m.nan \/ m.mills < 1000 \/ m.mills > 100000

\* C1: the history never holds more than 100 entries and is the first 100
\* entries of everything inserted since the last clear, newest insertion
\* first.
HistoryIsNewestHundred ==
    /\ Len(crashHistory) <= 100
    /\ crashHistory = SubSeq(inserted, 1, Min2(Len(inserted), 100))

\* More than 100 outcomes were inserted and the oldest were dropped.
HistoryOverflowed ==
    /\ Len(inserted) > 100
    /\ Len(crashHistory) = 100
    /\ inserted[Len(inserted)] # crashHistory[100]

\* C2: a manual add whose input is not a number, or a number outside
\* [1.00, 100.00], leaves the history (and the summary) as it was.
RejectedAddKeepsHistory ==
    [][(addManualCrash /\ InvalidInput(inputMultiplier))
         => (crashHistory' = crashHistory /\ statistics' = statistics
             /\ effectPending' = effectPending)]_vars

\* An out-of-range number is in the input of a non-empty history: the state
\* a rejected add is run in and, as it changes nothing, the state after it.
RejectedAddCase ==
    /\ ~effectPending
    /\ crashHistory # <<>>
    /\ ~parseFloat(inputMultiplier).nan
    /\ InvalidInput(inputMultiplier)

\* The generator's value lies in [1.0, 50.0) for every pair of draws.
GeneratorInRange ==
    \A r \in 0..999 : \A u \in 0..999 :
        /\ generateCrashMultiplier(r, u) >= 1000
        /\ generateCrashMultiplier(r, u) < 50000

\* C3: every stored multiplier has two decimals and lies in [1.00, 100.00],
\* and the generator's values lie in [1.0, 50.0).
MultipliersInDomain ==
    /\ \A k \in 1..Len(crashHistory) :
          /\ crashHistory[k].multiplier % 10 = 0
          /\ crashHistory[k].multiplier >= 1000
          /\ crashHistory[k].multiplier <= 100000
    /\ GeneratorInRange

\* A manual 99.999, stored as 100.00, on top of a simulated batch.
RoundedManualOnBatch ==
    /\ Len(crashHistory) >= 11
    /\ crashHistory[1].multiplier = 100000
    /\ nManual = 1

\* C4: the outcomes of the history have pairwise distinct ids.
IdsDistinct ==
    \A i, j \in 1..Len(crashHistory) :
        i # j => crashHistory[i].id # crashHistory[j].id

\* C5: for a non-empty history the volatility is >= 0, and it is 0 exactly
\* when all multipliers are identical.
VolatilityZeroIffIdentical ==
    crashHistory # <<>> =>
        LET s == calculateStatistics(crashHistory)
        IN  /\ s.volatility >= 0
            /\ (s.volatility = 0) <=> AllIdentical(Multipliers(crashHistory))

\* C5, amended: for a non-empty history the volatility is >= 0, and it is 0
\* when all multipliers are identical.
VolatilityZeroWhenIdentical ==
    crashHistory # <<>> =>
        LET s == calculateStatistics(crashHistory)
        IN  /\ s.volatility >= 0
            /\ AllIdentical(Multipliers(crashHistory)) => s.volatility = 0

\* The stored summary of several identical multipliers.
IdenticalSummarised ==
    /\ ~effectPending
    /\ Len(crashHistory) >= 2
    /\ AllIdentical(Multipliers(crashHistory))
    /\ statistics.volatility = 0

\* C6: for a non-empty history min <= median <= max and min <= average <= max.
CentreWithinExtrema ==
    crashHistory # <<>> =>
        LET s == calculateStatistics(crashHistory)
        IN  /\ s.minMultiplier <= s.medianMultiplier
            /\ s.medianMultiplier <= s.maxMultiplier
            /\ s.minMultiplier <= s.averageMultiplier
            /\ s.averageMultiplier <= s.maxMultiplier

\* The stored summary of an even number of distinct multipliers, its
\* median and its average strictly between the extrema.
SpreadSummarised ==
    /\ ~effectPending
    /\ Len(crashHistory) = 2
    /\ statistics.minMultiplier < statistics.medianMultiplier
    /\ statistics.medianMultiplier < statistics.maxMultiplier
    /\ statistics.minMultiplier < statistics.averageMultiplier
    /\ statistics.averageMultiplier < statistics.maxMultiplier

\* C7: the six bucket counts add up to the number of outcomes, and all are
\* 0 over the empty history.
BucketsPartition ==
    LET d == distributionData(crashHistory)
    IN  /\ d[1] + d[2] + d[3] + d[4] + d[5] + d[6] = Len(crashHistory)
        /\ crashHistory = <<>> => d = <<0, 0, 0, 0, 0, 0>>

\* A history of bucket boundaries only.
BoundariesBucketed ==
    /\ Len(crashHistory) = 3
    /\ \A k \in 1..3 : crashHistory[k].multiplier \in {1500, 2000, 3000, 5000, 10000}
    /\ ~AllIdentical(Multipliers(crashHistory))

\* C8: the statistics computation returns null for the empty history and
\* for no other; once the effect has run the stored summary is null after a
\* clear and present after an add or a simulation.
SummaryAbsentIffEmpty ==
    /\ calculateStatistics(crashHistory).isNull <=> (crashHistory = <<>>)
    /\ ~effectPending => (statistics.isNull <=> (crashHistory = <<>>))

\* The summary recomputed after a clear that followed an accepted add.
ClearedAndRecomputed ==
    /\ ~effectPending
    /\ crashHistory = <<>>
    /\ statistics.isNull
    /\ nManual >= 1

\* C9: the history is ordered newest first by timestamp.
NewestFirst ==
    \A i, j \in 1..Len(crashHistory) :
        i < j => crashHistory[i].timestamp >= crashHistory[j].timestamp

\* C10: whenever the statistics panel is rendered (a summary is stored and
\* the history is not empty) the stored summary is the statistics of the
\* current history.
PanelShowsCurrentSummary ==
    (~statistics.isNull /\ crashHistory # <<>>)
        => statistics = calculateStatistics(crashHistory)

\* C10, amended: once the effect of a history change has run the stored
\* summary is the statistics of the current history; a pending effect runs,
\* after which it is so; and a step that changes the history clears it or
\* inserts one manual outcome or a whole batch of 10 or 50.
SummaryFollowsHistory ==
    /\ [](~effectPending => statistics = calculateStatistics(crashHistory))
    /\ effectPending ~> (~effectPending /\ statistics = calculateStatistics(crashHistory))
    /\ [][crashHistory' # crashHistory =>
            \/ crashHistory' = <<>> /\ inserted' = <<>>
            \/ Len(inserted') - Len(inserted) \in {1, 10, 50}]_vars

\* The summary recomputed after a history change that followed another.
SecondSummary ==
    /\ ~effectPending
    /\ Len(crashHistory) >= 11
    /\ nManual = 1
    /\ ~statistics.isNull

============================================================================
